---- MODULE Spec2Model ----
(***************************************************************************)
(* Model of the content-addressed version store of item-console            *)
(* (src/src/App.tsx): localStorage holding hash-linked inventory snapshots *)
(* plus the current-sha pointer, the resolve / repair routine              *)
(* (initLocalStorage, getOrCreateCurrentVersion) and the mutations         *)
(* (writeItemToLocalStorage, deleteItemFromLocalStorage,                   *)
(* writeItemsToLocalStorage).                                              *)
(***************************************************************************)
EXTENDS Integers, Sequences, FiniteSets, TLC

(***************************************************************************)
(* Bounds of the model.                                                    *)
(***************************************************************************)
\* a mutation is only started while fewer than MaxVersions snapshots are stored
MaxVersions == 3
\* the clock (milliseconds) does not advance past MaxTime
MaxTime == 3
\* a tab only starts a mutation while the snapshots stored and the mutations
\* under way in other tabs are together fewer than MaxTabVersions
MaxTabVersions == 2

\* versions stored or about to be stored when the calls of the tabs follow
\* one another
MaxSeqVersions == 3

\* longest text typed into the quantity field
MaxTextLen == 3

(***************************************************************************)
(* Values.                                                                 *)
(*   null            JS null: <<>> where a hash or a stored value is       *)
(*                   expected, NoName where an item name is expected       *)
(*   a string s+h    the pair <<s, h>> (prefix, hash)                      *)
(*   a Map           the sequence of its <<key, value>> entries in         *)
(*                   insertion order (keys unique)                         *)
(*   a JS object     the sequence of its <<key, value>> properties in      *)
(*                   enumeration order                                     *)
(*   the JSON text   of a version: the record of its three members, the    *)
(*                   items in the enumeration order of the object          *)
(***************************************************************************)
NULL == <<>>
NoName == "<null>"

CURRENT_SHA_KEY == <<"current-sha">>
VERSION_KEY_PREFIX == "data-version-"

\* VERSION_KEY_PREFIX + sha
VersionKey(sha) == <<VERSION_KEY_PREFIX, sha>>
\* k.startsWith(VERSION_KEY_PREFIX)
startsWithPrefix(k) == Len(k) = 2 /\ k[1] = VERSION_KEY_PREFIX
\* k.slice(VERSION_KEY_PREFIX.length)
slicePrefix(k) == k[2]

\* js-sha256: a collision-free digest, a value determined by the text alone
sha256(s) == <<s>>

\* new Date().toISOString() at clock value t, and Date.parse of such a string
toISOString(t) == <<t>>
DateParse(s) == s[1]

(***************************************************************************)
(* localStorage: getItem / setItem on a function from keys to values.      *)
(***************************************************************************)
hasItem(ls, k) == k \in DOMAIN ls
getItem(ls, k) == IF k \in DOMAIN ls THEN ls[k] ELSE NULL
setItem(ls, k, v) == [x \in (DOMAIN ls) \cup {k} |-> IF x = k THEN v ELSE ls[x]]

(***************************************************************************)
(* Map<string, Item> operations.                                           *)
(***************************************************************************)
MapKeys(m) == {m[i][1] : i \in 1..Len(m)}
MapHas(m, k) == \E i \in 1..Len(m) : m[i][1] = k
MapGet(m, k) == m[CHOOSE i \in 1..Len(m) : m[i][1] = k][2]
MapDelete(m, k) == SelectSeq(m, LAMBDA e : e[1] # k)
MapSet(m, k, v) ==
    IF MapHas(m, k)
    THEN [i \in 1..Len(m) |-> IF m[i][1] = k THEN <<k, v>> ELSE m[i]]
    ELSE Append(m, <<k, v>>)

(***************************************************************************)
(* Property enumeration order of a JS object: integer-index keys first, in *)
(* ascending numeric order, then the other keys in creation order.         *)
(***************************************************************************)
IndexNames == {"1", "2"}
IndexValue(n) == IF n = "1" THEN 1 ELSE 2

RECURSIVE InsertIndexEntry(_, _)
InsertIndexEntry(sorted, e) ==
    IF sorted = <<>> THEN <<e>>
    ELSE IF IndexValue(e[1]) < IndexValue(Head(sorted)[1])
         THEN <<e>> \o sorted
         ELSE <<Head(sorted)>> \o InsertIndexEntry(Tail(sorted), e)

RECURSIVE SortIndexEntries(_)
SortIndexEntries(es) ==
    IF es = <<>> THEN <<>>
    ELSE InsertIndexEntry(SortIndexEntries(Tail(es)), Head(es))

ObjectOrder(es) ==
    SortIndexEntries(SelectSeq(es, LAMBDA e : e[1] \in IndexNames))
        \o SelectSeq(es, LAMBDA e : e[1] \notin IndexNames)

\* new Map(Object.entries(o))
objectToItems(o) == ObjectOrder(o)
\* Object.fromEntries(items.entries())
itemsToObject(items) == ObjectOrder(items)

objectToVersion(o) ==
    [items |-> objectToItems(o.items),
     previousVersion |-> o.previousVersion,
     timestamp |-> o.timestamp]

versionToObject(v) ==
    [items |-> itemsToObject(v.items),
     previousVersion |-> v.previousVersion,
     timestamp |-> v.timestamp]

\* JSON.parse keeps the members of the text; the object enumerates them in
\* ObjectOrder. JSON.stringify writes the properties in enumeration order.
stringToVersion(s) == objectToVersion(s)
versionToString(v) == versionToObject(v)

(***************************************************************************)
(* Snapshots.                                                              *)
(***************************************************************************)
\* variant: the new snapshot is not linked to its predecessor
makeVersion_NoParent(items, previousVersion, t) ==
    [items |-> items,
     previousVersion |-> NULL,
     timestamp |-> toISOString(t)]

\* variant: the predecessor is recorded by its storage key, not by its hash
makeVersion_ParentIsKey(items, previousVersion, t) ==
    [items |-> items,
     previousVersion |-> IF previousVersion = NULL THEN NULL
                         ELSE VersionKey(previousVersion),
     timestamp |-> toISOString(t)]

makeVersion(items, previousVersion, t) ==
    [items |-> items,
     previousVersion |-> previousVersion,
     timestamp |-> toISOString(t)]

\* variant: the second example item has the quantity of the first
ExampleItems_SameQuantity ==
    << <<"Example Item",
         [quantity |-> 2, tags |-> <<"example tag", "another example tag">>]>>,
       <<"Example Item #2", [quantity |-> 2, tags |-> <<"example tag">>]>> >>

ExampleItems ==
    << <<"Example Item",
         [quantity |-> 2, tags |-> <<"example tag", "another example tag">>]>>,
       <<"Example Item #2", [quantity |-> 20, tags |-> <<"example tag">>]>> >>

makeExampleVersion(t) == makeVersion(ExampleItems, NULL, t)

\* variant: the text is stored under the key of the snapshot it was derived
\* from, replacing that snapshot
writeVersionKey_InPlace(ls, v) ==
    setItem(ls, VersionKey(v.previousVersion), versionToString(v))

\* the two setItem calls of writeVersionToLocalStorage, in program order
\* variant: the key is the digest of the version without its items
writeVersionKey_HashWithoutItems(ls, v) ==
    setItem(ls, VersionKey(sha256(versionToString([v EXCEPT !.items = <<>>]))),
            versionToString(v))

\* variant: the entry is stored under another key prefix
writeVersionKey_OtherPrefix(ls, v) ==
    setItem(ls, <<"version-", sha256(versionToString(v))>>, versionToString(v))

writeVersionKey(ls, v) ==
    setItem(ls, VersionKey(sha256(versionToString(v))), versionToString(v))
writeCurrentSha(ls, v) ==
    setItem(ls, CURRENT_SHA_KEY, sha256(versionToString(v)))

writeVersionToLocalStorage(ls, v) == writeCurrentSha(writeVersionKey(ls, v), v)

\* Map from key to parsed Version of every data-version- entry
getAllVersions(ls) ==
    [k \in {x \in DOMAIN ls : startsWithPrefix(x)} |-> stringToVersion(ls[k])]

(***************************************************************************)
(* Resolve / repair.                                                       *)
(***************************************************************************)
\* variant: descending order, the latest timestamp sorts first
compareTimestamps_Descending(v1, v2) == DateParse(v2.timestamp) - DateParse(v1.timestamp)

\* the comparator handed to sort
compareTimestamps(v1, v2) == DateParse(v1.timestamp) - DateParse(v2.timestamp)

\* the keys that can be entry [0] after the (stable) sort: an entry no
\* other entry sorts strictly before; which one of several such entries
\* comes first is the enumeration order of localStorage, which the
\* platform leaves open
sortedFirstKeys(allVersions) ==
    {k \in DOMAIN allVersions :
        \A k2 \in DOMAIN allVersions :
            compareTimestamps(allVersions[k], allVersions[k2]) <= 0}

\* variant: the entry key is stored without removing the prefix
repairedSha_KeepsPrefix(k) == k

\* the value repair stores under current-sha for the chosen entry key
repairedSha(k) == slicePrefix(k)

\* variant: the pointer is set from the listing whenever a snapshot is stored
needsRepair_Always(ls) == TRUE

\* the test that decides whether the pointer is repaired
needsRepair(ls) ==
    \/ ~hasItem(ls, CURRENT_SHA_KEY)
    \/ ~hasItem(ls, VersionKey(getItem(ls, CURRENT_SHA_KEY)))

\* the set of localStorage contents initLocalStorage can leave behind when
\* it runs at clock value t
RECURSIVE initLocalStorage(_, _)
initLocalStorage(ls, t) ==
    LET allVersions == getAllVersions(ls) IN
    IF Cardinality(DOMAIN allVersions) = 0
    THEN initLocalStorage(writeVersionToLocalStorage(ls, makeExampleVersion(t)), t)
    ELSE IF needsRepair(ls)
         THEN {setItem(ls, CURRENT_SHA_KEY, repairedSha(k)) :
                  k \in sortedFirstKeys(allVersions)}
         ELSE {ls}

\* what stands for the Version when there is none to return
NoVersion == makeVersion(<<>>, NULL, 0)

\* the results [ls, version, sha] getOrCreateCurrentVersion can produce; the
\* two reads are asserted non-null in the code, and a pointer that names no
\* entry leaves the caller without a Version
getOrCreateCurrentVersion(ls, t) ==
    {[ls |-> r,
      sha |-> getItem(r, CURRENT_SHA_KEY),
      version |-> IF hasItem(r, VersionKey(getItem(r, CURRENT_SHA_KEY)))
                  THEN stringToVersion(getItem(r, VersionKey(getItem(r, CURRENT_SHA_KEY))))
                  ELSE NoVersion] :
        r \in initLocalStorage(ls, t)}

(***************************************************************************)
(* ItemInputRow: the item built from the two text inputs. A text is the    *)
(* sequence of its characters; a tag word is one character of the text     *)
(* that stands for a whole word.                                           *)
(***************************************************************************)
Digits == {"0", "1", "2", "3", "4", "5", "6", "7", "8", "9"}
DigitValue(c) ==
    CASE c = "0" -> 0 [] c = "1" -> 1 [] c = "2" -> 2 [] c = "3" -> 3
      [] c = "4" -> 4 [] c = "5" -> 5 [] c = "6" -> 6 [] c = "7" -> 7
      [] c = "8" -> 8 [] OTHER -> 9

RECURSIVE trimStart(_)
trimStart(str) ==
    IF str # <<>> /\ Head(str) = " " THEN trimStart(Tail(str)) ELSE str

RECURSIVE trimEnd(_)
trimEnd(str) ==
    IF str # <<>> /\ str[Len(str)] = " "
    THEN trimEnd(SubSeq(str, 1, Len(str) - 1))
    ELSE str

trim(str) == trimEnd(trimStart(str))

\* the leading run of digits of str and its value
RECURSIVE parseDigits(_, _, _)
parseDigits(str, seen, acc) ==
    IF str # <<>> /\ Head(str) \in Digits
    THEN parseDigits(Tail(str), TRUE, 10 * acc + DigitValue(Head(str)))
    ELSE [nan |-> ~seen, val |-> acc]

\* Number.parseInt: leading white space, an optional sign, then digits;
\* NaN when no digit follows
parseInt(str) ==
    LET s1 == trimStart(str)
        neg == s1 # <<>> /\ Head(s1) = "-"
        s2 == IF s1 # <<>> /\ Head(s1) \in {"-", "+"} THEN Tail(s1) ELSE s1
        d == parseDigits(s2, FALSE, 0)
    IN  [nan |-> d.nan, val |-> IF neg THEN 0 - d.val ELSE d.val]

\* str.split(",")
RECURSIVE split(_, _)
split(str, cur) ==
    IF str = <<>> THEN <<cur>>
    ELSE IF Head(str) = "," THEN <<cur>> \o split(Tail(str), <<>>)
         ELSE split(Tail(str), Append(cur, Head(str)))

\* a trimmed segment holds at most one tag word in the texts of the model
commaSeparatedToArray(str) ==
    LET parts == split(str, <<>>)
        trimmed == [i \in 1..Len(parts) |-> trim(parts[i])]
        kept == SelectSeq(trimmed, LAMBDA x : Len(x) > 0)
    IN  [i \in 1..Len(kept) |-> kept[i][1]]

\* q >= 0 ? q : 1 (a comparison with NaN is false)
ItemInputRow_getItem(itemQuantity, itemTags) ==
    LET q == parseInt(itemQuantity) IN
    [quantity |-> IF ~q.nan /\ q.val >= 0 THEN q.val ELSE 1,
     tags |-> commaSeparatedToArray(itemTags)]

(***************************************************************************)
(* Mutations. Each yields the set of outcomes [ls, result, resolved] the   *)
(* call can have at clock value t: the localStorage it leaves, what it     *)
(* reported, and what its getOrCreateCurrentVersion call returned.         *)
(***************************************************************************)
\* variant: an add (no original name) is not tested against existing names
nameTaken_OnlyOnRename(currentItems, originalItemName, newItemName) ==
    /\ MapHas(currentItems, newItemName)
    /\ originalItemName # NoName
    /\ newItemName # originalItemName

\* currentItems.has(newItemName) && newItemName != originalItemName
nameTaken(currentItems, originalItemName, newItemName) ==
    MapHas(currentItems, newItemName) /\ newItemName # originalItemName

\* newItemName.length == 0
nameEmpty(newItemName) == newItemName = ""

\* variant: the test for an empty name is missing
validateUpsert_NoEmptyTest(currentItems, originalItemName, newItemName) ==
    IF nameTaken(currentItems, originalItemName, newItemName) THEN "DuplicateName"
    ELSE "ok"

\* the alert raised by the validation of writeItemToLocalStorage, if any
validateUpsert(currentItems, originalItemName, newItemName) ==
    IF nameTaken(currentItems, originalItemName, newItemName) THEN "DuplicateName"
    ELSE IF nameEmpty(newItemName) THEN "EmptyName"
    ELSE "ok"

\* variant: the set comes before the delete
upsertItems_SetThenDelete(currentItems, originalItemName, newItemName, item) ==
    IF originalItemName # NoName
    THEN MapDelete(MapSet(currentItems, newItemName, item), originalItemName)
    ELSE MapSet(currentItems, newItemName, item)

\* variant: the entry under the original name is kept
upsertItems_KeepsOriginal(currentItems, originalItemName, newItemName, item) ==
    MapSet(currentItems, newItemName, item)

\* the delete and set applied to the map that was read
upsertItems(currentItems, originalItemName, newItemName, item) ==
    MapSet(IF originalItemName # NoName
           THEN MapDelete(currentItems, originalItemName)
           ELSE currentItems,
           newItemName, item)

\* variant: the snapshot is committed before the validation reports
writeItemToLocalStorage_CommitsFirst(ls, originalItemName, newItemName, item, t) ==
    {[ls |-> writeVersionToLocalStorage(g.ls,
                 makeVersion(upsertItems(g.version.items, originalItemName,
                                         newItemName, item),
                             g.sha, t)),
      result |-> validateUpsert(g.version.items, originalItemName, newItemName),
      resolved |-> g] : g \in getOrCreateCurrentVersion(ls, t)}

writeItemToLocalStorage(ls, originalItemName, newItemName, item, t) ==
    {[ls |-> IF validateUpsert(g.version.items, originalItemName, newItemName) = "ok"
             THEN writeVersionToLocalStorage(g.ls,
                      makeVersion(upsertItems(g.version.items, originalItemName,
                                              newItemName, item),
                                  g.sha, t))
             ELSE g.ls,
      result |-> validateUpsert(g.version.items, originalItemName, newItemName),
      resolved |-> g] : g \in getOrCreateCurrentVersion(ls, t)}

deleteItems(currentItems, name) == MapDelete(currentItems, name)

\* variant: nothing is committed when the name is not in the map
deleteItemFromLocalStorage_SkipsAbsent(ls, name, t) ==
    {[ls |-> IF MapHas(g.version.items, name)
             THEN writeVersionToLocalStorage(g.ls,
                      makeVersion(deleteItems(g.version.items, name), g.sha, t))
             ELSE g.ls,
      result |-> "ok",
      resolved |-> g] : g \in getOrCreateCurrentVersion(ls, t)}

\* variant: the new snapshot is linked to the parent of the current one
deleteItemFromLocalStorage_BesideCurrent(ls, name, t) ==
    {[ls |-> writeVersionToLocalStorage(g.ls,
                 makeVersion(deleteItems(g.version.items, name),
                             g.version.previousVersion, t)),
      result |-> "ok",
      resolved |-> g] : g \in getOrCreateCurrentVersion(ls, t)}

deleteItemFromLocalStorage(ls, name, t) ==
    {[ls |-> writeVersionToLocalStorage(g.ls,
                 makeVersion(deleteItems(g.version.items, name), g.sha, t)),
      result |-> "ok",
      resolved |-> g] : g \in getOrCreateCurrentVersion(ls, t)}

writeItemsToLocalStorage(ls, items, t) ==
    {[ls |-> writeVersionToLocalStorage(g.ls, makeVersion(items, g.sha, t)),
      result |-> "ok",
      resolved |-> g] : g \in getOrCreateCurrentVersion(ls, t)}

(***************************************************************************)
(* JSON editor. A JSON text is given by what JSON.parse makes of it:       *)
(* kind "syntaxerror" when it does not parse, "object" with its entries,   *)
(* or "other"; an entry value likewise, with the kinds of its quantity and *)
(* tags members.                                                           *)
(***************************************************************************)
\* z.object({quantity: z.number(), tags: z.array(z.string())})
\* variant: the quantity is not validated
itemSchemaOk_IgnoresQuantity(val) ==
    val.kind = "object" /\ val.tags.kind = "strings"

itemSchemaOk(val) ==
    val.kind = "object" /\ val.quantity.kind = "number" /\ val.tags.kind = "strings"

\* z.record(z.string(), <item schema>)
schemaOk(obj) ==
    obj.kind = "object" /\ \A i \in 1..Len(obj.entries) : itemSchemaOk(obj.entries[i][2])

schemaParse(obj) ==
    [i \in 1..Len(obj.entries) |->
        <<obj.entries[i][1],
          [quantity |-> obj.entries[i][2].quantity.num,
           tags |-> obj.entries[i][2].tags.strs]>>]

parseJson(json) ==
    IF json.kind = "syntaxerror" THEN [kind |-> "error", msg |-> "SyntaxError", items |-> <<>>]
    ELSE IF ~schemaOk(json) THEN [kind |-> "error", msg |-> "SchemaViolation", items |-> <<>>]
    ELSE [kind |-> "ok", msg |-> "", items |-> objectToItems(schemaParse(json))]

(***************************************************************************)
(* Inputs of the model.                                                    *)
(***************************************************************************)
ItemA == [quantity |-> 2, tags |-> <<>>]
ItemB == [quantity |-> 1, tags |-> <<"a">>]

Names == {"", "X"}
QuantityTexts == {<<"2">>, <<"-", "5">>}
TagTexts == {<<>>}

JsonItem(q, tags) ==
    [kind |-> "object",
     quantity |-> [kind |-> "number", num |-> q],
     tags |-> [kind |-> "strings", strs |-> tags]]

JsonTexts ==
    { [kind |-> "syntaxerror", entries |-> <<>>],
      [kind |-> "object", entries |-> <<>>],
      [kind |-> "object",
       entries |-> << <<"X", JsonItem(0 - 5, <<"a">>)>>, <<"1", JsonItem(2, <<>>)>>,
                      <<"", JsonItem(2, <<>>)>> >>],
      [kind |-> "object",
       entries |-> << <<"X", [kind |-> "object",
                              quantity |-> [kind |-> "other", num |-> 0],
                              tags |-> [kind |-> "strings", strs |-> <<>>]]>> >>] }

\* well-formed snapshots that storage may hold when the program starts
InitVersion1 == makeVersion(<< <<"X", ItemA>> >>, NULL, 1)
InitVersion2 ==
    makeVersion(<< <<"X", ItemB>>, <<"", ItemA>> >>,
                sha256(versionToString(InitVersion1)), 2)
InitVersion3 == makeVersion(<<>>, NULL, 1)
UnstoredVersion == makeVersion(<<>>, NULL, 0)
InitVersions == {InitVersion1, InitVersion2, InitVersion3}

RECURSIVE storeAll(_, _)
storeAll(ls, vs) ==
    IF vs = {} THEN ls
    ELSE LET v == CHOOSE x \in vs : TRUE
         IN  storeAll(setItem(ls, VersionKey(sha256(versionToString(v))),
                              versionToString(v)),
                      vs \ {v})

(***************************************************************************)
(* State.                                                                  *)
(*   localStorage  the shared key/value storage                            *)
(*   now           the clock, in milliseconds                              *)
(*   last          the last completed call: its name and arguments, what   *)
(*                 it reported, the storage it started from (pre) and what *)
(*                 its getOrCreateCurrentVersion returned (resolved)       *)
(*   before        the call before last, when that was a successful add    *)
(*   tab           for each browser tab, the call it is in the middle of:  *)
(*                 its position (pc), arguments and local variables        *)
(***************************************************************************)
VARIABLES localStorage, now, last, before, tab, app
vars == <<localStorage, now, last, before, tab, app>>

NoItem == [quantity |-> 0, tags |-> <<>>]

Tabs == {"A", "B"}

\* a tab that is not in the middle of a call
IdleTab ==
    [pc |-> "idle", op |-> "none", oldName |-> NoName, newName |-> NoName,
     item |-> NoItem, items |-> <<>>, allVersions |-> <<>>, currentSha |-> NULL,
     newVersion |-> NoVersion,
     \* history of the call: self-calls of the running initLocalStorage,
     \* whether its first listing found no version (both until it returns),
     \* and the pointer value at the start of the call when that value is the
     \* last commit of another tab
     selfCalls |-> 0, foundEmpty |-> FALSE, after |-> NULL,
     \* history of the tab: hash of the snapshot its last mutation committed
     committed |-> NULL]

\* the window of a tab before App is mounted in it: mounted says whether the
\* App component is mounted, listener whether its "storage" listener is
\* registered on the window, events counts the storage events queued for
\* the window, notified the runs of updateCounter as that listener
NoApp == [mounted |-> FALSE, listener |-> FALSE, events |-> 0, notified |-> 0]

NoCall ==
    [op |-> "none", oldName |-> NoName, newName |-> NoName, item |-> NoItem,
     result |-> "ok"]

\* what before keeps of the call l: its name, arguments and report when it
\* was a successful add (an upsert without original name), NoCall otherwise
Summary(l) ==
    IF l.op = "upsert" /\ l.result = "ok" /\ l.oldName = NoName
    THEN [op |-> l.op, oldName |-> l.oldName, newName |-> l.newName,
          item |-> l.item, result |-> l.result]
    ELSE NoCall

\* no text was typed
NoJson == [kind |-> "other", entries |-> <<>>]

\* json and quantityText are the texts the user supplied, as typed
Call(op, oldName, newName, item, items, o) ==
    [op |-> op, oldName |-> oldName, newName |-> newName, item |-> item,
     items |-> items, result |-> o.result, pre |-> localStorage,
     resolved |-> o.resolved, json |-> NoJson, quantityText |-> <<>>]

Init ==
    /\ \E vs \in SUBSET InitVersions :
         \E c \in {NULL} \cup {sha256(versionToString(v)) : v \in InitVersions \cup {UnstoredVersion}} :
            localStorage = IF c = NULL THEN storeAll(<<>>, vs)
                           ELSE setItem(storeAll(<<>>, vs), CURRENT_SHA_KEY, c)
    /\ now = 2
    /\ last = [op |-> "none", oldName |-> NoName, newName |-> NoName, item |-> NoItem,
               items |-> <<>>, result |-> "ok", pre |-> localStorage,
               resolved |-> [ls |-> localStorage, sha |-> NULL, version |-> NoVersion],
               json |-> NoJson, quantityText |-> <<>>]
    /\ before = Summary(last)
    /\ tab = [c \in Tabs |-> IdleTab]
    /\ app = [c \in Tabs |-> NoApp]

StoredCount == Cardinality(DOMAIN getAllVersions(localStorage))

\* the clock advances
Tick ==
    /\ now < MaxTime
    /\ now' = now + 1
    /\ UNCHANGED <<localStorage, last, before, tab, app>>

\* a render of App: getOrCreateCurrentVersion()
Resolve ==
    /\ \E g \in getOrCreateCurrentVersion(localStorage, now) :
         /\ localStorage' = g.ls
         /\ last' = Call("resolve", NoName, NoName, NoItem, <<>>,
                         [result |-> "ok", resolved |-> g])
    /\ before' = Summary(last)
    /\ UNCHANGED <<now, tab, app>>

\* Save of an item row: onSave(itemName, getItem())
Upsert ==
    /\ StoredCount < MaxVersions
    /\ \E originalItemName \in Names \cup {NoName}, newItemName \in Names,
          itemQuantity \in QuantityTexts, itemTags \in TagTexts :
         LET item == ItemInputRow_getItem(itemQuantity, itemTags) IN
         \E o \in writeItemToLocalStorage(localStorage, originalItemName,
                                          newItemName, item, now) :
            /\ localStorage' = o.ls
            /\ last' = [Call("upsert", originalItemName, newItemName, item, <<>>, o)
                           EXCEPT !.quantityText = itemQuantity]
    /\ before' = Summary(last)
    /\ UNCHANGED <<now, tab, app>>

\* Delete of an item row
Delete ==
    /\ StoredCount < MaxVersions
    /\ \E name \in Names :
         \E o \in deleteItemFromLocalStorage(localStorage, name, now) :
            /\ localStorage' = o.ls
            /\ last' = Call("delete", name, NoName, NoItem, <<>>, o)
    /\ before' = Summary(last)
    /\ UNCHANGED <<now, tab, app>>

\* Save of the JSON editor
BulkReplace ==
    /\ StoredCount < MaxVersions
    /\ \E json \in JsonTexts :
         LET parseResult == parseJson(json) IN
         IF parseResult.kind = "ok"
         THEN \E o \in writeItemsToLocalStorage(localStorage, parseResult.items, now) :
                 /\ localStorage' = o.ls
                 /\ last' = [Call("bulk", NoName, NoName, NoItem, parseResult.items, o)
                                EXCEPT !.json = json]
         ELSE /\ localStorage' = localStorage
              /\ last' = [Call("bulk", NoName, NoName, NoItem, <<>>,
                               [result |-> parseResult.msg,
                                resolved |-> [ls |-> localStorage,
                                              sha |-> getItem(localStorage, CURRENT_SHA_KEY),
                                              version |-> NoVersion]])
                                EXCEPT !.json = json]
    /\ before' = Summary(last)
    /\ UNCHANGED <<now, tab, app>>

Next == Tick \/ Resolve \/ Upsert \/ Delete \/ BulkReplace

Spec == Init /\ [][Next]_vars

(***************************************************************************)
(* Several tabs on the same localStorage. A call is run one localStorage   *)
(* access at a time, and the accesses of different tabs interleave. Each   *)
(* action is one access of tab c together with the local computation       *)
(* that follows it up to the next access.                                  *)
(***************************************************************************)
TabNames == {"X"}
TabQuantityTexts == {<<"2">>}
TabJsonTexts == {json \in JsonTexts : Len(json.entries) > 1}

\* the tabs start from storage that holds some of the first and third
\* initial snapshots, with the pointer absent, dangling or on the first
InitTabs ==
    /\ Init
    /\ VersionKey(sha256(versionToString(InitVersion2))) \notin DOMAIN localStorage
    /\ VersionKey(sha256(versionToString(InitVersion3))) \notin DOMAIN localStorage
    /\ DOMAIN localStorage # {} => StoredCount = 1
    /\ getItem(localStorage, CURRENT_SHA_KEY)
           \in {NULL, sha256(versionToString(InitVersion1)),
                sha256(versionToString(UnstoredVersion))}

\* snapshots stored plus snapshots that running mutations are about to store
PendingCount ==
    StoredCount + Cardinality({c \in Tabs : /\ tab[c].pc \notin {"idle", "threw"}
                                            /\ tab[c].op # "resolve"})

\* where initLocalStorage goes after getAllVersions returned allVersions
AfterList(allVersions) ==
    IF Cardinality(DOMAIN allVersions) = 0 THEN "seedKey" ELSE "readPointer"

\* the tab's record between two calls
Returned(t, committed) == [IdleTab EXCEPT !.committed = committed]

\* the pointer value, when it is what another tab committed last
CommittedByOther(c) ==
    IF \E b \in Tabs \ {c} : /\ tab[b].committed # NULL
                              /\ hasItem(localStorage, CURRENT_SHA_KEY)
                              /\ getItem(localStorage, CURRENT_SHA_KEY) = tab[b].committed
    THEN getItem(localStorage, CURRENT_SHA_KEY)
    ELSE NULL

\* tab c starts a call: initLocalStorage reads all versions (line 238)
Begin(c, op, originalItemName, newItemName, item, items) ==
    /\ tab[c].pc \in {"idle", "threw"}
    /\ LET allVersions == getAllVersions(localStorage) IN
       tab' = [tab EXCEPT ![c] =
                  [IdleTab EXCEPT !.pc = AfterList(allVersions), !.op = op,
                                  !.oldName = originalItemName,
                                  !.newName = newItemName, !.item = item,
                                  !.items = items, !.allVersions = allVersions,
                                  !.foundEmpty = Cardinality(DOMAIN allVersions) = 0,
                                  !.after = CommittedByOther(c),
                                  !.committed = tab[c].committed]]
    /\ UNCHANGED <<localStorage, now, last, before, app>>

Start(c, op, originalItemName, newItemName, item, items) ==
    /\ tab[c].pc \in {"idle", "threw"}
    /\ op # "resolve" => PendingCount < MaxTabVersions
    /\ Begin(c, op, originalItemName, newItemName, item, items)

StartResolve(c) == Start(c, "resolve", NoName, NoName, NoItem, <<>>)

StartUpsert(c) ==
    \E originalItemName \in {NoName}, newItemName \in TabNames,
       itemQuantity \in TabQuantityTexts, itemTags \in TagTexts :
        Start(c, "upsert", originalItemName, newItemName,
              ItemInputRow_getItem(itemQuantity, itemTags), <<>>)

StartDelete(c) == \E name \in TabNames : Start(c, "delete", name, NoName, NoItem, <<>>)

\* Save of the JSON editor: nothing is started when the text is refused
StartBulkReplace(c) ==
    \E json \in TabJsonTexts :
        /\ tab[c].pc \in {"idle", "threw"}
        /\ parseJson(json).kind = "ok"
        /\ Start(c, "bulk", NoName, NoName, NoItem, parseJson(json).items)

\* bootstrap, first setItem of writeVersionToLocalStorage (line 233)
SeedKey(c) ==
    /\ tab[c].pc = "seedKey"
    /\ localStorage' = writeVersionKey(localStorage, makeExampleVersion(now))
    /\ tab' = [tab EXCEPT ![c].pc = "seedPointer",
                          ![c].newVersion = makeExampleVersion(now)]
    /\ UNCHANGED <<now, last, before, app>>

\* bootstrap, second setItem of writeVersionToLocalStorage (line 234)
SeedPointer(c) ==
    /\ tab[c].pc = "seedPointer"
    /\ localStorage' = writeCurrentSha(localStorage, tab[c].newVersion)
    /\ tab' = [tab EXCEPT ![c].pc = "list", ![c].newVersion = NoVersion]
    /\ UNCHANGED <<now, last, before, app>>

\* the self-call of initLocalStorage reads all versions again (line 241)
List(c) ==
    /\ tab[c].pc = "list"
    /\ LET allVersions == getAllVersions(localStorage) IN
       tab' = [tab EXCEPT ![c].pc = AfterList(allVersions),
                          ![c].allVersions = allVersions,
                          ![c].selfCalls = tab[c].selfCalls + 1]
    /\ UNCHANGED <<localStorage, now, last, before, app>>

\* initLocalStorage reads current-sha (line 244)
ReadPointer(c) ==
    /\ tab[c].pc = "readPointer"
    /\ tab' = [tab EXCEPT ![c].currentSha = getItem(localStorage, CURRENT_SHA_KEY),
                          ![c].pc = IF hasItem(localStorage, CURRENT_SHA_KEY)
                                    THEN "checkPointer" ELSE "repair"]
    /\ UNCHANGED <<localStorage, now, last, before, app>>

\* initLocalStorage reads the entry the pointer names (line 247)
CheckPointer(c) ==
    /\ tab[c].pc = "checkPointer"
    /\ tab' = [tab EXCEPT ![c].pc = IF hasItem(localStorage, VersionKey(tab[c].currentSha))
                                    THEN "getSha" ELSE "repair"]
    /\ UNCHANGED <<localStorage, now, last, before, app>>

\* initLocalStorage sets current-sha from the versions it listed (line 251)
Repair(c) ==
    /\ tab[c].pc = "repair"
    /\ \E k \in sortedFirstKeys(tab[c].allVersions) :
          localStorage' = setItem(localStorage, CURRENT_SHA_KEY, repairedSha(k))
    /\ tab' = [tab EXCEPT ![c].pc = "getSha"]
    /\ UNCHANGED <<now, last, before, app>>

\* variant: the current hash is taken from the listing made by
\* initLocalStorage, not read from current-sha
GetSha_FromListing(c) ==
    /\ tab[c].pc = "getSha"
    /\ \E k \in sortedFirstKeys(tab[c].allVersions) :
          tab' = [tab EXCEPT ![c].currentSha = repairedSha(k),
                             ![c].pc = "getVersion", ![c].allVersions = <<>>,
                             ![c].selfCalls = 0, ![c].foundEmpty = FALSE]
    /\ UNCHANGED <<localStorage, now, last, before, app>>

\* getOrCreateCurrentVersion reads current-sha (line 78)
GetSha(c) ==
    /\ tab[c].pc = "getSha"
    /\ tab' = [tab EXCEPT ![c].currentSha = getItem(localStorage, CURRENT_SHA_KEY),
                          ![c].pc = "getVersion", ![c].allVersions = <<>>,
                          ![c].selfCalls = 0, ![c].foundEmpty = FALSE]
    /\ UNCHANGED <<localStorage, now, last, before, app>>

\* the snapshot a mutation builds from the items it read
mutatedItems(t, currentItems) ==
    IF t.op = "upsert" THEN upsertItems(currentItems, t.oldName, t.newName, t.item)
    ELSE IF t.op = "delete" THEN deleteItems(currentItems, t.oldName)
    ELSE t.items

\* whether the call goes on to commit after reading the current version
commits(t, currentItems) ==
    /\ t.op # "resolve"
    /\ t.op = "upsert" => validateUpsert(currentItems, t.oldName, t.newName) = "ok"

\* getOrCreateCurrentVersion reads the current entry (line 79); the caller
\* validates and builds the new version, or returns
GetVersion(c) ==
    /\ tab[c].pc = "getVersion"
    /\ LET sha == tab[c].currentSha
           currentVersion == IF hasItem(localStorage, VersionKey(sha))
                             THEN stringToVersion(getItem(localStorage, VersionKey(sha)))
                             ELSE NoVersion
       IN  tab' = [tab EXCEPT ![c] =
                      IF commits(tab[c], currentVersion.items)
                      THEN [tab[c] EXCEPT
                               !.pc = "commitKey",
                               !.newVersion = makeVersion(
                                   mutatedItems(tab[c], currentVersion.items), sha, now)]
                      ELSE Returned(tab[c], tab[c].committed)]
    /\ UNCHANGED <<localStorage, now, last, before, app>>

\* variant: writeVersionToLocalStorage sets current-sha first
CommitKey_PointerFirst(c) ==
    /\ tab[c].pc = "commitKey"
    /\ localStorage' = writeCurrentSha(localStorage, tab[c].newVersion)
    /\ tab' = [tab EXCEPT ![c].pc = "commitPointer"]
    /\ UNCHANGED <<now, last, before, app>>

\* the mutation's first setItem of writeVersionToLocalStorage (line 233)
CommitKey(c) ==
    /\ tab[c].pc = "commitKey"
    /\ localStorage' = writeVersionKey(localStorage, tab[c].newVersion)
    /\ tab' = [tab EXCEPT ![c].pc = "commitPointer"]
    /\ UNCHANGED <<now, last, before, app>>

\* the mutation's second setItem of writeVersionToLocalStorage (line 234)
CommitPointer(c) ==
    /\ tab[c].pc = "commitPointer"
    /\ localStorage' = writeCurrentSha(localStorage, tab[c].newVersion)
    /\ tab' = [tab EXCEPT ![c] =
                   Returned(tab[c], sha256(versionToString(tab[c].newVersion)))]
    /\ UNCHANGED <<now, last, before, app>>

NextTabs ==
    \/ Tick
    \/ \E c \in Tabs : StartResolve(c)
    \/ \E c \in Tabs : StartUpsert(c)
    \/ \E c \in Tabs : StartDelete(c)
    \/ \E c \in Tabs : StartBulkReplace(c)
    \/ \E c \in Tabs : SeedKey(c)
    \/ \E c \in Tabs : SeedPointer(c)
    \/ \E c \in Tabs : List(c)
    \/ \E c \in Tabs : ReadPointer(c)
    \/ \E c \in Tabs : CheckPointer(c)
    \/ \E c \in Tabs : Repair(c)
    \/ \E c \in Tabs : GetSha(c)
    \/ \E c \in Tabs : GetVersion(c)
    \/ \E c \in Tabs : CommitKey(c)
    \/ \E c \in Tabs : CommitPointer(c)

SpecTabs == InitTabs /\ [][NextTabs]_vars

(***************************************************************************)
(* localStorage.setItem may throw (quota exceeded, storage denied). No     *)
(* call site catches, so the call of the tab ends at the failing setItem.   *)
(***************************************************************************)
WritePositions == {"seedKey", "seedPointer", "repair", "commitKey", "commitPointer"}

\* the setItem tab c is about to make throws
WriteFails(c) ==
    /\ tab[c].pc \in WritePositions
    /\ tab' = [tab EXCEPT ![c] =
                   [Returned(tab[c], tab[c].committed) EXCEPT !.pc = "threw"]]
    /\ UNCHANGED <<localStorage, now, last, before, app>>

\* the calls of one tab, any of whose writes may fail
NextFail ==
    \/ Tick
    \/ StartResolve("A")
    \/ StartUpsert("A")
    \/ StartDelete("A")
    \/ StartBulkReplace("A")
    \/ SeedKey("A")
    \/ SeedPointer("A")
    \/ List("A")
    \/ ReadPointer("A")
    \/ CheckPointer("A")
    \/ Repair("A")
    \/ GetSha("A")
    \/ GetVersion("A")
    \/ CommitKey("A")
    \/ CommitPointer("A")
    \/ WriteFails("A")

SpecFail == InitTabs /\ [][NextFail]_vars

\* tab c starts a call when every other tab has returned
StartAfter(c) ==
    /\ \A b \in Tabs \ {c} : tab[b].pc = "idle"
    /\ \/ Begin(c, "resolve", NoName, NoName, NoItem, <<>>)
       \/ /\ PendingCount < MaxSeqVersions
          /\ \/ \E name \in TabNames : Begin(c, "delete", name, NoName, NoItem, <<>>)
             \/ \E newItemName \in TabNames, itemQuantity \in TabQuantityTexts,
                   itemTags \in TagTexts :
                   Begin(c, "upsert", NoName, newItemName,
                         ItemInputRow_getItem(itemQuantity, itemTags), <<>>)

\* the calls of the tabs one after the other
NextSeq ==
    \/ Tick
    \/ \E c \in Tabs : StartAfter(c)
    \/ \E c \in Tabs : SeedKey(c)
    \/ \E c \in Tabs : SeedPointer(c)
    \/ \E c \in Tabs : List(c)
    \/ \E c \in Tabs : ReadPointer(c)
    \/ \E c \in Tabs : CheckPointer(c)
    \/ \E c \in Tabs : Repair(c)
    \/ \E c \in Tabs : GetSha(c)
    \/ \E c \in Tabs : GetVersion(c)
    \/ \E c \in Tabs : CommitKey(c)
    \/ \E c \in Tabs : CommitPointer(c)

(***************************************************************************)
(* Storage that holds a value JSON.parse refuses under a data-version- key *)
(* (left by another program or a truncated write).                         *)
(***************************************************************************)
\* a text that is not JSON
CorruptText == [syntaxerror |-> TRUE]

\* JSON.parse(s) returns (line 59)
parses(s) == "items" \in DOMAIN s

\* getAllVersions returns: every data-version- value goes through
\* stringToVersion (lines 198-200)
allParse(ls) == \A k \in DOMAIN ls : startsWithPrefix(k) => parses(ls[k])

InitCorrupt ==
    /\ \E vs \in SUBSET {InitVersion1, InitVersion3}, corrupt \in BOOLEAN :
         \E c \in {NULL, sha256(versionToString(InitVersion1)),
                   sha256(versionToString(UnstoredVersion))} :
            LET stored == IF corrupt
                          THEN setItem(storeAll(<<>>, vs),
                                       VersionKey(sha256(CorruptText)), CorruptText)
                          ELSE storeAll(<<>>, vs)
            IN  localStorage = IF c = NULL THEN stored
                               ELSE setItem(stored, CURRENT_SHA_KEY, c)
    /\ now = 2
    /\ last = [op |-> "none", oldName |-> NoName, newName |-> NoName, item |-> NoItem,
               items |-> <<>>, result |-> "ok", pre |-> localStorage,
               resolved |-> [ls |-> localStorage, sha |-> NULL, version |-> NoVersion],
               json |-> NoJson, quantityText |-> <<>>]
    /\ before = Summary(last)
    /\ tab = [c \in Tabs |-> IdleTab]
    /\ app = [c \in Tabs |-> NoApp]

\* a call on storage with an unparseable entry: JSON.parse throws inside
\* getAllVersions and nothing catches it, so the render or handler ends there
Throws ==
    /\ ~allParse(localStorage)
    /\ \E op \in {"resolve", "upsert", "delete", "bulk"} :
          last' = Call(op, NoName, NoName, NoItem, <<>>,
                       [result |-> "SyntaxError",
                        resolved |-> [ls |-> localStorage, sha |-> NULL,
                                      version |-> NoVersion]])
    /\ localStorage' = localStorage
    /\ before' = Summary(last)
    /\ UNCHANGED <<now, tab, app>>

\* the calls as they run when every stored value parses
Parsed == allParse(localStorage) /\ (Resolve \/ Upsert \/ Delete \/ BulkReplace)

NextCorrupt == Tick \/ Parsed \/ Throws

SpecCorrupt == InitCorrupt /\ [][NextCorrupt]_vars

(***************************************************************************)
(* The "storage" listener of App. Each call of a tab runs as a whole (one  *)
(* task of the tab's event loop). The browser queues one storage event on  *)
(* the window of every other tab for each setItem that changes the stored  *)
(* value, and none on the window of the tab that called setItem.           *)
(***************************************************************************)
\* the setItem calls that changed storage in a call that started on pre,
\* resolved g and ended on post
storageEvents(pre, g, post) ==
    LET resolveWrites ==
            IF Cardinality(DOMAIN getAllVersions(pre)) = 0
            THEN 1 + (IF getItem(pre, CURRENT_SHA_KEY) # g.sha THEN 1 ELSE 0)
            ELSE IF getItem(g.ls, CURRENT_SHA_KEY) # getItem(pre, CURRENT_SHA_KEY)
                 THEN 1 ELSE 0
        commitWrites ==
            (IF ~hasItem(g.ls, VersionKey(getItem(post, CURRENT_SHA_KEY))) THEN 1 ELSE 0)
            + (IF getItem(post, CURRENT_SHA_KEY) # getItem(g.ls, CURRENT_SHA_KEY)
               THEN 1 ELSE 0)
    IN  resolveWrites + commitWrites

\* tab c made n changing setItem calls: the other windows get n events each
queueEvents(a, c, n) ==
    [b \in Tabs |-> IF b = c THEN a[b] ELSE [a[b] EXCEPT !.events = @ + n]]

\* App is mounted in tab c: first render, then the effect registers the
\* listener (lines 485-486, 492)
Mount(c) ==
    /\ ~app[c].mounted
    /\ \E g \in getOrCreateCurrentVersion(localStorage, now) :
         /\ localStorage' = g.ls
         /\ last' = Call("resolve", NoName, NoName, NoItem, <<>>,
                         [result |-> "ok", resolved |-> g])
         /\ app' = queueEvents([app EXCEPT ![c].mounted = TRUE, ![c].listener = TRUE],
                               c, storageEvents(localStorage, g, g.ls))
    /\ before' = Summary(last)
    /\ UNCHANGED <<now, tab>>

\* variant: the effect has no cleanup
Unmount_KeepsListener(c) ==
    /\ app[c].mounted
    /\ app' = [app EXCEPT ![c].mounted = FALSE]
    /\ UNCHANGED <<localStorage, now, last, before, tab>>

\* App is unmounted in tab c: the cleanup of the effect removes the
\* listener (lines 487-489)
Unmount(c) ==
    /\ app[c].mounted
    /\ app' = [app EXCEPT ![c].mounted = FALSE, ![c].listener = FALSE]
    /\ UNCHANGED <<localStorage, now, last, before, tab>>

\* a row of tab c is saved as a new item or deleted
Mutate(c) ==
    /\ app[c].mounted
    /\ StoredCount < MaxTabVersions
    /\ \/ \E o \in writeItemToLocalStorage(localStorage, NoName, "X", ItemA, now) :
            /\ localStorage' = o.ls
            /\ last' = Call("upsert", NoName, "X", ItemA, <<>>, o)
            /\ app' = queueEvents(app, c, storageEvents(localStorage, o.resolved, o.ls))
       \/ \E o \in deleteItemFromLocalStorage(localStorage, "X", now) :
            /\ localStorage' = o.ls
            /\ last' = Call("delete", "X", NoName, NoItem, <<>>, o)
            /\ app' = queueEvents(app, c, storageEvents(localStorage, o.resolved, o.ls))
    /\ before' = Summary(last)
    /\ UNCHANGED <<now, tab>>

\* the browser dispatches a queued storage event on the window of tab c: a
\* registered listener runs updateCounter, and a mounted App renders again
Dispatch(c) ==
    /\ app[c].events > 0
    /\ IF app[c].listener /\ app[c].mounted
       THEN \E g \in getOrCreateCurrentVersion(localStorage, now) :
               /\ localStorage' = g.ls
               /\ last' = Call("resolve", NoName, NoName, NoItem, <<>>,
                               [result |-> "ok", resolved |-> g])
               /\ before' = Summary(last)
               /\ app' = queueEvents([app EXCEPT ![c].events = @ - 1,
                                                 ![c].notified = @ + 1],
                                     c, storageEvents(localStorage, g, g.ls))
       ELSE /\ app' = [app EXCEPT ![c].events = @ - 1,
                                  ![c].notified = IF app[c].listener THEN @ + 1 ELSE @]
            /\ UNCHANGED <<localStorage, last, before>>
    /\ UNCHANGED <<now, tab>>

NextNotify ==
    \/ \E c \in Tabs : Mount(c)
    \/ \E c \in Tabs : Unmount(c)
    \/ \E c \in Tabs : Mutate(c)
    \/ \E c \in Tabs : Dispatch(c)

SpecNotify == InitTabs /\ [][NextNotify]_vars

\* the program is started on storage that holds nothing
InitEmpty == Init /\ DOMAIN localStorage = {}

(***************************************************************************)
(* The quantity field: any short text over a few characters is typed and   *)
(* the row is saved as a new item on empty storage.                        *)
(***************************************************************************)
QuantityChars == {"2", "7", "-", ".", "a"}

TypedQuantityTexts ==
    UNION {[1..n -> QuantityChars] : n \in 0..MaxTextLen}

\* Save of the add-item row (lines 584-588) with the typed quantity
UpsertTyped ==
    /\ StoredCount = 0
    /\ \E itemQuantity \in TypedQuantityTexts, itemTags \in TagTexts :
         LET item == ItemInputRow_getItem(itemQuantity, itemTags) IN
         \E o \in writeItemToLocalStorage(localStorage, NoName, "X", item, now) :
            /\ localStorage' = o.ls
            /\ last' = [Call("upsert", NoName, "X", item, <<>>, o)
                           EXCEPT !.quantityText = itemQuantity]
    /\ before' = Summary(last)
    /\ UNCHANGED <<now, tab, app>>

NextTyped == UpsertTyped

SpecTyped == InitEmpty /\ [][NextTyped]_vars

(***************************************************************************)
(* Item rows saved under more names: an item is added, changed in place or *)
(* renamed, among them to and from a name that is an integer index.        *)
(***************************************************************************)
UpsertNames == {"", "X", "Y", "1"}

\* Save of the add-item row (originalItemName null, lines 584-588) or of
\* an item row in edit mode (lines 596-601)
UpsertNamed ==
    /\ StoredCount < MaxVersions
    /\ \E originalItemName \in UpsertNames \cup {NoName}, newItemName \in UpsertNames,
          itemQuantity \in QuantityTexts, itemTags \in TagTexts :
         LET item == ItemInputRow_getItem(itemQuantity, itemTags) IN
         \E o \in writeItemToLocalStorage(localStorage, originalItemName,
                                          newItemName, item, now) :
            /\ localStorage' = o.ls
            /\ last' = [Call("upsert", originalItemName, newItemName, item, <<>>, o)
                           EXCEPT !.quantityText = itemQuantity]
    /\ before' = Summary(last)
    /\ UNCHANGED <<now, tab, app>>

NextNamed == UpsertNamed

SpecNamed == Init /\ [][NextNamed]_vars

\* one context, from empty storage
SpecEmpty == InitEmpty /\ [][Next]_vars

\* several tabs, from empty storage
SpecTabsEmpty == InitEmpty /\ [][NextTabs]_vars

\* several tabs, each call started after the calls of the others returned
SpecSeq == InitTabs /\ [][NextSeq]_vars

\* renders only: each tab resolves the current version, step by step
NextResolve ==
    \/ Tick
    \/ \E c \in Tabs : StartResolve(c)
    \/ \E c \in Tabs : SeedKey(c)
    \/ \E c \in Tabs : SeedPointer(c)
    \/ \E c \in Tabs : List(c)
    \/ \E c \in Tabs : ReadPointer(c)
    \/ \E c \in Tabs : CheckPointer(c)
    \/ \E c \in Tabs : Repair(c)
    \/ \E c \in Tabs : GetSha(c)
    \/ \E c \in Tabs : GetVersion(c)

\* one step of the call tab c is running: a started call runs to completion
\* (synchronous code of an event handler or render, no await)
Step(c) ==
    \/ SeedKey(c) \/ SeedPointer(c) \/ List(c) \/ ReadPointer(c)
    \/ CheckPointer(c) \/ Repair(c) \/ GetSha(c) \/ GetVersion(c)

SpecResolveFair ==
    Init /\ [][NextResolve]_vars /\ \A c \in Tabs : WF_vars(Step(c))

(***************************************************************************)
(* Vocabulary of the properties.                                           *)
(***************************************************************************)
\* the current pointer, NULL when absent
Cur(ls) == getItem(ls, CURRENT_SHA_KEY)
\* the hashes h for which a key data-version-<h> is present
StoredHashes(ls) == {k[2] : k \in {x \in DOMAIN ls : Len(x) = 2 /\ x[1] = VERSION_KEY_PREFIX}}
\* the snapshot stored under hash h
StoredVersion(ls, h) == stringToVersion(ls[VersionKey(h)])
\* the pointer is present and names a stored snapshot
PointerValid(ls) == Cur(ls) # NULL /\ Cur(ls) \in StoredHashes(ls)
CurrentVersion(ls) == StoredVersion(ls, Cur(ls))
\* two item maps hold the same names with the same items
SameItems(m1, m2) ==
    /\ MapKeys(m1) = MapKeys(m2)
    /\ \A n \in MapKeys(m1) : MapGet(m1, n) = MapGet(m2, n)
\* the call l ran getOrCreateCurrentVersion to its end
Resolved(l) ==
    l.op \in {"resolve", "upsert", "delete"} \/ (l.op = "bulk" /\ l.result = "ok")
\* the call l was a mutation that reported success
Mutated(l) == l.op \in {"upsert", "delete", "bulk"} /\ l.result = "ok"
\* the call l was an upsert that was rejected
Rejected(l) == l.op = "upsert" /\ l.result \in {"DuplicateName", "EmptyName"}

(***************************************************************************)
(* C1: after any completed resolve, whatever well-formed storage it        *)
(* started from, the current pointer is present and names a stored         *)
(* snapshot, and the returned pair is that stored snapshot and the value   *)
(* of the pointer.                                                         *)
(***************************************************************************)
C1_ResolveYieldsStoredCurrent ==
    Resolved(last) =>
        /\ PointerValid(last.resolved.ls)
        /\ last.resolved.sha = Cur(last.resolved.ls)
        /\ last.resolved.version = CurrentVersion(last.resolved.ls)
        /\ (last.op = "resolve" =>
               /\ PointerValid(localStorage)
               /\ last.resolved.sha = Cur(localStorage)
               /\ last.resolved.version = CurrentVersion(localStorage))

\* a resolve that started from stored snapshots and a dangling pointer
C1_Witness ==
    /\ last.op = "resolve"
    /\ StoredHashes(last.pre) # {}
    /\ Cur(last.pre) # NULL
    /\ Cur(last.pre) \notin StoredHashes(last.pre)
    /\ PointerValid(localStorage)

(***************************************************************************)
(* C2: chain growth. After a successful mutation the new current           *)
(* snapshot's previousVersion is the hash resolve returned as current      *)
(* right before the mutation, and the prior current snapshot is still      *)
(* stored, unchanged, under that hash.                                     *)
(***************************************************************************)
C2_ChainGrowth ==
    Mutated(last) =>
        /\ PointerValid(localStorage)
        /\ CurrentVersion(localStorage).previousVersion = last.resolved.sha
        /\ last.resolved.sha \in StoredHashes(localStorage)
        /\ localStorage[VersionKey(last.resolved.sha)]
               = last.resolved.ls[VersionKey(last.resolved.sha)]
        /\ StoredVersion(localStorage, last.resolved.sha) = last.resolved.version

\* a successful upsert on top of a snapshot that was itself committed on top
\* of another one
C2_Witness ==
    /\ last.op = "upsert" /\ last.result = "ok"
    /\ last.resolved.version.previousVersion # NULL
    /\ CurrentVersion(localStorage).previousVersion = last.resolved.sha
    /\ Cur(localStorage) # last.resolved.sha

C4_DuplicateRejected ==
    /\ (/\ last.op = "upsert"
        /\ MapHas(last.resolved.version.items, last.newName)
        /\ last.newName # last.oldName) => last.result = "DuplicateName"
    /\ (/\ before.op = "upsert"
        /\ last.op = "upsert"
        /\ last.oldName = NoName
        /\ last.newName = before.newName) =>
            /\ last.result = "DuplicateName"
            /\ PointerValid(localStorage)
            /\ MapHas(CurrentVersion(localStorage).items, before.newName)
            /\ MapGet(CurrentVersion(localStorage).items, before.newName) = before.item

\* a second add of the same name with another item, right after the first
C4_Witness ==
    /\ before.op = "upsert"
    /\ last.op = "upsert"
    /\ last.oldName = NoName
    /\ last.newName = before.newName
    /\ last.item # before.item
    /\ last.result = "DuplicateName"

(***************************************************************************)
(* C5, as claimed: a rejected Upsert leaves the stored snapshots and the   *)
(* pointer as they were before the call, from any store state.             *)
(***************************************************************************)
C5_RejectedLeavesStorageAsBeforeCall ==
    Rejected(last) => localStorage = last.pre

(***************************************************************************)
(* C5, amended: a rejected Upsert commits nothing of its own. Storage      *)
(* after the call is what the call's initial resolve left: the same as     *)
(* before the call when the pointer named a stored snapshot, and otherwise *)
(* changed only by the bootstrap seed (empty store) or the repaired        *)
(* pointer (stored snapshots unchanged).                                   *)
(***************************************************************************)
C5_RejectedCommitsNothing ==
    Rejected(last) =>
        /\ localStorage = last.resolved.ls
        /\ (PointerValid(last.pre) => localStorage = last.pre)
        /\ (StoredHashes(last.pre) # {} =>
               /\ StoredHashes(localStorage) = StoredHashes(last.pre)
               /\ \A h \in StoredHashes(last.pre) :
                     localStorage[VersionKey(h)] = last.pre[VersionKey(h)])
        /\ (StoredHashes(last.pre) = {} =>
               /\ Cardinality(StoredHashes(localStorage)) = 1
               /\ CurrentVersion(localStorage).previousVersion = NULL)

\* an upsert rejected right after its resolve seeded an empty store
C5_Witness ==
    /\ Rejected(last)
    /\ StoredHashes(last.pre) = {}
    /\ StoredHashes(localStorage) # {}

(***************************************************************************)
(* The outcome of a successful Upsert(X, X, item2) on a current snapshot   *)
(* that has X: a new snapshot is committed and made current, in which X    *)
(* maps to item2 and every other name maps to the item it had.             *)
(***************************************************************************)
RenameToSelfUpdates ==
    /\ last.result = "ok"
    /\ PointerValid(localStorage)
    /\ Cur(localStorage) \notin StoredHashes(last.resolved.ls)
    /\ MapKeys(CurrentVersion(localStorage).items) = MapKeys(last.resolved.version.items)
    /\ MapGet(CurrentVersion(localStorage).items, last.newName) = last.item
    /\ \A n \in MapKeys(last.resolved.version.items) \ {last.newName} :
          MapGet(CurrentVersion(localStorage).items, n)
              = MapGet(last.resolved.version.items, n)

(***************************************************************************)
(* C6, as claimed: whenever X is present in the current snapshot,          *)
(* Upsert(X, X, item2) succeeds and updates X to item2.                    *)
(***************************************************************************)
C6_RenameToSelfAnyName ==
    (/\ last.op = "upsert"
     /\ last.oldName = last.newName
     /\ MapHas(last.resolved.version.items, last.newName)) => RenameToSelfUpdates

(***************************************************************************)
(* C6, amended: whenever a non-empty name X is present in the current      *)
(* snapshot, Upsert(X, X, item2) succeeds, commits a new snapshot and      *)
(* updates X to item2, every other name keeping its item.                  *)
(***************************************************************************)
C6_RenameToSelfNonEmptyName ==
    (/\ last.op = "upsert"
     /\ last.oldName = last.newName
     /\ last.newName # ""
     /\ MapHas(last.resolved.version.items, last.newName)) => RenameToSelfUpdates

\* a rename-to-self that changed the item of X next to another item
C6_Witness ==
    /\ last.op = "upsert"
    /\ last.result = "ok"
    /\ last.oldName = last.newName
    /\ MapHas(last.resolved.version.items, last.newName)
    /\ MapGet(last.resolved.version.items, last.newName) # last.item
    /\ Len(last.resolved.version.items) >= 2
    /\ MapGet(CurrentVersion(localStorage).items, last.newName) = last.item

(***************************************************************************)
(* C7, as claimed: an Upsert with an empty newName is always reported as   *)
(* EmptyName.                                                              *)
(***************************************************************************)
C7_EmptyNameAlwaysEmptyNameError ==
    (last.op = "upsert" /\ last.newName = "") => last.result = "EmptyName"

(***************************************************************************)
(* C7, amended: an Upsert with an empty newName is always rejected and     *)
(* commits nothing; the error is EmptyName, except that it is              *)
(* DuplicateName when the current snapshot already has an item named ""    *)
(* and oldName is not "".                                                  *)
(***************************************************************************)
C7_EmptyNameAlwaysRejected ==
    (last.op = "upsert" /\ last.newName = "") =>
        /\ Rejected(last)
        /\ localStorage = last.resolved.ls
        /\ (last.result = "DuplicateName" <=>
               (MapHas(last.resolved.version.items, "") /\ last.oldName # ""))

\* an upsert of the empty name reported as EmptyName although the current
\* snapshot has an item of that name
C7_Witness ==
    /\ last.op = "upsert"
    /\ last.newName = ""
    /\ last.result = "EmptyName"
    /\ MapHas(last.resolved.version.items, "")

(***************************************************************************)
(* C8: Delete(name) never fails and commits exactly one new snapshot on    *)
(* top of the resolved current one and makes it current: it has a hash     *)
(* not stored before and previousVersion = the resolved hash; its items    *)
(* are the old ones without name, identical to the old ones when name was  *)
(* absent.                                                                 *)
(***************************************************************************)
C8_DeleteAlwaysCommits ==
    last.op = "delete" =>
        /\ last.result = "ok"
        /\ PointerValid(localStorage)
        /\ Cur(localStorage) # last.resolved.sha
        /\ Cur(localStorage) \notin StoredHashes(last.resolved.ls)
        /\ StoredHashes(localStorage) = StoredHashes(last.resolved.ls) \cup {Cur(localStorage)}
        /\ CurrentVersion(localStorage).previousVersion = last.resolved.sha
        /\ MapKeys(CurrentVersion(localStorage).items)
               = MapKeys(last.resolved.version.items) \ {last.oldName}
        /\ \A n \in MapKeys(CurrentVersion(localStorage).items) :
              MapGet(CurrentVersion(localStorage).items, n)
                  = MapGet(last.resolved.version.items, n)
        /\ (~MapHas(last.resolved.version.items, last.oldName) =>
               CurrentVersion(localStorage).items = last.resolved.version.items)

\* a delete of a name the current snapshot did not have
C8_Witness ==
    /\ last.op = "delete"
    /\ ~MapHas(last.resolved.version.items, last.oldName)
    /\ last.resolved.version.items # <<>>
    /\ Cur(localStorage) # last.resolved.sha

(***************************************************************************)
(* C9: bootstrap determinism. A resolve against storage that holds no      *)
(* snapshot, with or without a (dangling) pointer, stores exactly one      *)
(* snapshot, with previousVersion = null and exactly the two example       *)
(* items, makes it current and returns it.                                 *)
(***************************************************************************)
C9_BootstrapSeedsExampleItems ==
    (Resolved(last) /\ StoredHashes(last.pre) = {}) =>
        /\ Cardinality(StoredHashes(last.resolved.ls)) = 1
        /\ PointerValid(last.resolved.ls)
        /\ last.resolved.sha = Cur(last.resolved.ls)
        /\ last.resolved.version = CurrentVersion(last.resolved.ls)
        /\ last.resolved.version.previousVersion = NULL
        /\ last.resolved.version.items =
              << <<"Example Item",
                   [quantity |-> 2, tags |-> <<"example tag", "another example tag">>]>>,
                 <<"Example Item #2", [quantity |-> 20, tags |-> <<"example tag">>]>> >>

\* a bootstrap that found a dangling pointer and no snapshot
C9_Witness ==
    /\ last.op = "resolve"
    /\ StoredHashes(last.pre) = {}
    /\ Cur(last.pre) # NULL
    /\ Cardinality(StoredHashes(localStorage)) = 1

(***************************************************************************)
(* C10 (I4, append-only store): in no step of any call of any tab does a   *)
(* key data-version-<h> that is present disappear or change its value; the *)
(* set of stored snapshots only grows.                                     *)
(***************************************************************************)
C10_AppendOnly ==
    [][\A k \in DOMAIN localStorage :
          startsWithPrefix(k) =>
              /\ k \in DOMAIN localStorage'
              /\ localStorage'[k] = localStorage[k]]_vars

\* two tabs have each stored a different snapshot derived from the same
\* current snapshot, and neither has moved the pointer yet
C10_Witness ==
    /\ tab["A"].pc = "commitPointer"
    /\ tab["B"].pc = "commitPointer"
    /\ tab["A"].newVersion # tab["B"].newVersion
    /\ tab["A"].newVersion.previousVersion = tab["B"].newVersion.previousVersion
    /\ sha256(versionToString(tab["A"].newVersion)) \in StoredHashes(localStorage)
    /\ sha256(versionToString(tab["B"].newVersion)) \in StoredHashes(localStorage)

(***************************************************************************)
(* C11: parent closure. Starting from empty storage, with the calls of     *)
(* several tabs interleaved, every stored snapshot's previousVersion is    *)
(* null or the hash of a stored snapshot, and the only snapshots with      *)
(* previousVersion = null are bootstrap seeds.                             *)
(***************************************************************************)
C11_ParentClosure ==
    \A h \in StoredHashes(localStorage) :
        LET v == StoredVersion(localStorage, h) IN
        /\ v.previousVersion = NULL \/ v.previousVersion \in StoredHashes(localStorage)
        /\ v.previousVersion = NULL => v.items = ExampleItems

\* two tabs have each committed a snapshot on top of a stored parent
C11_Witness ==
    \E h1, h2 \in StoredHashes(localStorage) :
        /\ h1 # h2
        /\ StoredVersion(localStorage, h1).previousVersion \in StoredHashes(localStorage)
        /\ StoredVersion(localStorage, h2).previousVersion \in StoredHashes(localStorage)

(***************************************************************************)
(* C12: no committed snapshot is lost under interleaving. Whatever a tab's *)
(* mutation committed is stored under its hash and stays retrievable while *)
(* the steps of the tabs interleave, and once both tabs have committed and *)
(* returned, the pointer names the snapshot one of the two committed.       *)
(***************************************************************************)
C12_NoCommittedSnapshotLost ==
    /\ \A c \in Tabs :
          tab[c].committed # NULL =>
             /\ hasItem(localStorage, VersionKey(tab[c].committed))
             /\ sha256(getItem(localStorage, VersionKey(tab[c].committed)))
                   = tab[c].committed
    /\ (\A c \in Tabs : tab[c].pc = "idle" /\ tab[c].committed # NULL) =>
          /\ hasItem(localStorage, CURRENT_SHA_KEY)
          /\ \E c \in Tabs : getItem(localStorage, CURRENT_SHA_KEY) = tab[c].committed

\* both tabs have committed a snapshot on the same parent and returned
C12_Witness ==
    /\ \A c \in Tabs : tab[c].pc = "idle" /\ tab[c].committed # NULL
    /\ tab["A"].committed # tab["B"].committed
    /\ \A c \in Tabs : hasItem(localStorage, VersionKey(tab[c].committed))
    /\ StoredVersion(localStorage, tab["A"].committed).previousVersion
          = StoredVersion(localStorage, tab["B"].committed).previousVersion

(***************************************************************************)
(* C13: the store is never cached. A mutation of a tab that started when   *)
(* the pointer was what another tab's completed mutation had committed,    *)
(* and during which no other commit completed, builds a snapshot whose     *)
(* previousVersion is that hash.                                           *)
(***************************************************************************)
C13_MutationReadsOtherTabsCommit ==
    \A a \in Tabs :
        (/\ tab[a].pc \in {"commitKey", "commitPointer"}
         /\ tab[a].after # NULL
         /\ \E b \in Tabs \ {a} : tab[b].committed = tab[a].after)
        => tab[a].newVersion.previousVersion = tab[a].after

\* tab A is committing on top of what tab B committed before A started
C13_Witness ==
    /\ tab["A"].pc = "commitPointer"
    /\ tab["B"].pc = "idle"
    /\ tab["B"].committed # NULL
    /\ tab["A"].after = tab["B"].committed
    /\ tab["A"].newVersion.previousVersion = tab["B"].committed

\* self-calls of initLocalStorage within one resolve
C14_Bounded ==
    \A c \in Tabs :
        /\ tab[c].selfCalls <= 1
        /\ tab[c].pc \in {"seedKey", "seedPointer"} => tab[c].selfCalls = 0
        /\ ~tab[c].foundEmpty =>
              tab[c].selfCalls = 0 /\ tab[c].pc \notin {"seedKey", "seedPointer", "list"}

(***************************************************************************)
(* C14: resolve always terminates. A resolve that finds no version seeds   *)
(* once and calls initLocalStorage again at most once; one that finds a    *)
(* version does not call it again; every started resolve returns.          *)
(***************************************************************************)
C14_ResolveTerminates ==
    /\ []C14_Bounded
    /\ \A c \in Tabs : (tab[c].pc # "idle") ~> (tab[c].pc = "idle")

\* initLocalStorage has returned on storage it found empty, after its
\* single self-call
C14_Witness ==
    \E c \in Tabs : tab[c].selfCalls = 1 /\ tab[c].foundEmpty /\ tab[c].pc = "getSha"

(***************************************************************************)
(* C15: an unparseable value under a data-version- key that is not the     *)
(* current one does not halt resolution: resolve returns the current       *)
(* snapshot when the pointer names a stored snapshot, and otherwise sets   *)
(* the pointer to one of the stored snapshots.                             *)
(***************************************************************************)
C15_CorruptEntryDoesNotHaltResolve ==
    (last.op = "resolve" /\ ~allParse(last.pre)) =>
        /\ last.result = "ok"
        /\ PointerValid(localStorage)
        /\ PointerValid(last.pre) =>
              localStorage = last.pre /\ last.resolved.sha = Cur(last.pre)

\* the supplied JSON value is a mapping from names to items with a numeric
\* quantity and a sequence of strings as tags
C16_Matches(json) ==
    /\ json.kind = "object"
    /\ \A i \in 1..Len(json.entries) :
          /\ json.entries[i][2].kind = "object"
          /\ json.entries[i][2].quantity.kind = "number"
          /\ json.entries[i][2].tags.kind = "strings"

\* the mapping a matching JSON value denotes
C16_Supplied(json) ==
    [i \in 1..Len(json.entries) |->
        <<json.entries[i][1], [quantity |-> json.entries[i][2].quantity.num,
                               tags |-> json.entries[i][2].tags.strs]>>]

(***************************************************************************)
(* C16: BulkReplace validates the whole mapping before committing. A JSON  *)
(* value that does not match the item schema is reported as                *)
(* SchemaViolation and storage is left as it was; a value that matches is  *)
(* committed as one new snapshot whose items are exactly the supplied      *)
(* mapping and whose previousVersion is the prior current hash.            *)
(***************************************************************************)
C16_BulkReplaceValidatesThenCommits ==
    (last.op = "bulk" /\ last.json.kind # "syntaxerror") =>
        IF C16_Matches(last.json)
        THEN /\ last.result = "ok"
             /\ StoredHashes(localStorage) = StoredHashes(last.resolved.ls) \cup {Cur(localStorage)}
             /\ Cur(localStorage) \notin StoredHashes(last.resolved.ls)
             /\ SameItems(CurrentVersion(localStorage).items, C16_Supplied(last.json))
             /\ CurrentVersion(localStorage).previousVersion = last.resolved.sha
             /\ PointerValid(last.pre) =>
                   CurrentVersion(localStorage).previousVersion = Cur(last.pre)
        ELSE /\ last.result = "SchemaViolation"
             /\ localStorage = last.pre

\* a mapping of three items was committed on top of a valid pointer
C16_Witness ==
    /\ last.op = "bulk"
    /\ last.result = "ok"
    /\ Len(last.json.entries) = 3
    /\ PointerValid(last.pre)
    /\ Cardinality(MapKeys(CurrentVersion(localStorage).items)) = 3

\* the text is the decimal notation of a non-negative integer
C17_IsNonNegativeInteger(txt) ==
    txt # <<>> /\ \A i \in 1..Len(txt) : txt[i] \in Digits

RECURSIVE C17_Decimal(_)
C17_Decimal(txt) ==
    IF txt = <<>> THEN 0
    ELSE 10 * C17_Decimal(SubSeq(txt, 1, Len(txt) - 1)) + DigitValue(txt[Len(txt)])

(***************************************************************************)
(* C17: quantity coercion. An upsert whose supplied quantity is not a      *)
(* non-negative integer is not rejected and commits quantity 1; a supplied *)
(* non-negative integer is committed unchanged.                            *)
(***************************************************************************)
C17_QuantityCoercion ==
    (last.op = "upsert" /\ last.newName = "X") =>
        /\ last.result = "ok"
        /\ PointerValid(localStorage)
        /\ MapHas(CurrentVersion(localStorage).items, "X")
        /\ MapGet(CurrentVersion(localStorage).items, "X").quantity =
              IF C17_IsNonNegativeInteger(last.quantityText)
              THEN C17_Decimal(last.quantityText)
              ELSE 1

(***************************************************************************)
(* C18: item data-model invariant. Starting from empty storage, after any  *)
(* sequence of Upsert, Delete and BulkReplace, every item of every stored  *)
(* snapshot has a non-negative integer quantity.                           *)
(***************************************************************************)
C18_QuantitiesNonNegative ==
    \A h \in StoredHashes(localStorage) :
        LET items == StoredVersion(localStorage, h).items IN
        \A n \in MapKeys(items) : MapGet(items, n).quantity \in Nat

(***************************************************************************)
(* C19: change notifier. A call of tab c that writes to storage never      *)
(* queues a notification for c itself nor runs c's refresh callback, and   *)
(* queues one for every other tab; a queued notification runs the refresh  *)
(* callback of a tab whose App is mounted (subscribed), and never that of  *)
(* a tab whose App has been unmounted.                                     *)
(***************************************************************************)
C19_NotifierCallsOthersOnly ==
    [][\A c \in Tabs :
          /\ ((Mount(c) \/ Mutate(c)) /\ localStorage' # localStorage) =>
                /\ app'[c].events = app[c].events
                /\ app'[c].notified = app[c].notified
                /\ \A b \in Tabs \ {c} : app'[b].events > app[b].events
          /\ app'[c].notified # app[c].notified =>
                /\ app[c].mounted
                /\ app[c].events > 0
                /\ app'[c].notified = app[c].notified + 1
          /\ (app'[c].events < app[c].events /\ app[c].mounted) =>
                app'[c].notified = app[c].notified + 1]_vars

\* tab B was notified of a write of tab A, and an event queued for the
\* unmounted tab A was dropped without a call
C19_Witness ==
    /\ app["B"].notified > 0
    /\ app["A"].notified = 0
    /\ ~app["A"].mounted
    /\ app["A"].events = 0
    /\ app["B"].events = 0
    /\ Cardinality(StoredHashes(localStorage)) = MaxTabVersions

(***************************************************************************)
(* C20: a failing storage write ends the call with the exception and keeps *)
(* the store consistent. The failing write changes nothing; the snapshot   *)
(* write, when it succeeds, leaves the pointer as it was, so a pointer     *)
(* write that fails after it keeps the previous pointer; and through every *)
(* step a pointer that names a stored snapshot goes on naming one.         *)
(***************************************************************************)
C20_WriteFailureKeepsStoreConsistent ==
    [][\A c \in Tabs :
          /\ (tab[c].pc \in WritePositions /\ tab'[c].pc = "threw") =>
                localStorage' = localStorage
          /\ (tab[c].pc \in {"seedKey", "commitKey"} /\ tab'[c].pc # "threw") =>
                /\ hasItem(localStorage', CURRENT_SHA_KEY) = hasItem(localStorage, CURRENT_SHA_KEY)
                /\ getItem(localStorage', CURRENT_SHA_KEY) = getItem(localStorage, CURRENT_SHA_KEY)
          /\ PointerValid(localStorage) => PointerValid(localStorage')]_vars

\* the pointer write of a mutation failed: its snapshot is stored on top of
\* the current one and the pointer still names the previous snapshot
C20_Witness ==
    /\ tab["A"].pc = "threw"
    /\ PointerValid(localStorage)
    /\ \E h \in StoredHashes(localStorage) :
          StoredVersion(localStorage, h).previousVersion = Cur(localStorage)

\* the hashes met from h along the previousVersion links of stored snapshots
RECURSIVE Ancestry(_, _)
Ancestry(ls, h) ==
    IF h = NULL \/ h \notin StoredHashes(ls) THEN {}
    ELSE {h} \cup Ancestry(ls, StoredVersion(ls, h).previousVersion)

(***************************************************************************)
(* C21: every change is tracked. In one context that starts from empty     *)
(* storage, every snapshot committed so far (the seed and the snapshot of  *)
(* each successful mutation) is met by following previousVersion links     *)
(* from the current snapshot: the stored snapshots form one chain that     *)
(* ends at the seed, and each successful mutation adds its own snapshot at *)
(* the head.                                                               *)
(***************************************************************************)
C21_EveryChangeTracked ==
    StoredHashes(localStorage) # {} =>
        /\ PointerValid(localStorage)
        /\ StoredHashes(localStorage) = Ancestry(localStorage, Cur(localStorage))
        /\ Cardinality({h \in StoredHashes(localStorage) :
                           StoredVersion(localStorage, h).previousVersion = NULL}) = 1
        /\ \A h1, h2 \in StoredHashes(localStorage) :
              (StoredVersion(localStorage, h1).previousVersion
                  = StoredVersion(localStorage, h2).previousVersion) => h1 = h2
        /\ Mutated(last) =>
              /\ Cur(localStorage) \notin StoredHashes(last.resolved.ls)
              /\ StoredHashes(last.resolved.ls) \subseteq
                    Ancestry(localStorage, Cur(localStorage))

\* the seed and two mutations on top of it, the last one a delete
C21_Witness ==
    /\ Cardinality(StoredHashes(localStorage)) >= 3
    /\ last.op = "delete"
    /\ Cardinality(Ancestry(localStorage, Cur(localStorage))) >= 3
    /\ StoredVersion(localStorage,
           CurrentVersion(localStorage).previousVersion).previousVersion # NULL

\* the positions of the two setItem calls of writeVersionToLocalStorage
C22_KeyWrites == {"seedKey", "commitKey"}
C22_PointerWrites == {"seedPointer", "commitPointer"}

(***************************************************************************)
(* C22: commit ordering. writeVersionToLocalStorage stores the snapshot    *)
(* under data-version-<hash> in a step that leaves current-sha as it was,  *)
(* and only in a later step sets current-sha to that hash, which is stored *)
(* by then; so in every step of every tab, a pointer that names a stored   *)
(* snapshot goes on naming one, whatever the other tab observes.           *)
(***************************************************************************)
C22_CommitOrdering ==
    [][\A c \in Tabs :
          /\ (tab[c].pc \in C22_KeyWrites /\ tab'[c] # tab[c]) =>
                LET v == tab'[c].newVersion IN
                /\ hasItem(localStorage', VersionKey(sha256(versionToString(v))))
                /\ localStorage'[VersionKey(sha256(versionToString(v)))]
                      = versionToString(v)
                /\ hasItem(localStorage', CURRENT_SHA_KEY)
                      = hasItem(localStorage, CURRENT_SHA_KEY)
                /\ Cur(localStorage') = Cur(localStorage)
          /\ (tab[c].pc \in C22_PointerWrites /\ tab'[c] # tab[c]) =>
                LET h == sha256(versionToString(tab[c].newVersion)) IN
                /\ h \in StoredHashes(localStorage)
                /\ Cur(localStorage') = h
                /\ PointerValid(localStorage')
          /\ PointerValid(localStorage) => PointerValid(localStorage')]_vars

\* tab A has stored the snapshot of its mutation and not yet moved the
\* pointer, which names the parent; tab B is in the middle of a resolve
C22_Witness ==
    /\ tab["A"].pc = "commitPointer"
    /\ sha256(versionToString(tab["A"].newVersion)) \in StoredHashes(localStorage)
    /\ PointerValid(localStorage)
    /\ Cur(localStorage) = tab["A"].newVersion.previousVersion
    /\ tab["B"].op = "resolve"
    /\ tab["B"].pc = "checkPointer"

\* what a resolve that ran to its end did to storage
C23_ResolveWrites ==
    Resolved(last) =>
        /\ PointerValid(last.pre) => last.resolved.ls = last.pre
        /\ (StoredHashes(last.pre) # {} /\ ~PointerValid(last.pre)) =>
              /\ DOMAIN last.resolved.ls = DOMAIN last.pre \cup {CURRENT_SHA_KEY}
              /\ \A k \in DOMAIN last.pre \ {CURRENT_SHA_KEY} :
                    last.resolved.ls[k] = last.pre[k]
              /\ StoredHashes(last.resolved.ls) = StoredHashes(last.pre)
        /\ last.op = "resolve" => localStorage = last.resolved.ls

(***************************************************************************)
(* C23: resolve is a no-op on a consistent store and is idempotent. When   *)
(* the pointer names a stored snapshot, resolve writes nothing; when it    *)
(* repairs, it changes only current-sha and stores no snapshot; and a      *)
(* resolve that is the next call after a resolve leaves storage unchanged  *)
(* and returns the same snapshot and hash.                                 *)
(***************************************************************************)
C23_ResolveIdempotent ==
    /\ []C23_ResolveWrites
    /\ [][(last.op = "resolve" /\ last'.op = "resolve") =>
             /\ localStorage' = localStorage
             /\ last'.resolved.sha = last.resolved.sha
             /\ last'.resolved.version = last.resolved.version]_vars

\* a resolve has run as a no-op on storage that holds only the seed of an
\* earlier resolve, at a later clock value than the seed's timestamp
C23_Witness ==
    /\ last.op = "resolve"
    /\ last.pre = localStorage
    /\ Cardinality(StoredHashes(localStorage)) = 1
    /\ PointerValid(localStorage)
    /\ CurrentVersion(localStorage).items = ExampleItems
    /\ DateParse(CurrentVersion(localStorage).timestamp) < now

\* the pointer names the snapshot the last mutation of some tab committed
C24_HeadCommitted ==
    \E b \in Tabs : tab[b].committed # NULL /\ Cur(localStorage) = tab[b].committed

(***************************************************************************)
(* C24: repair never displaces a committed head. With the steps of two     *)
(* tabs interleaved, once the pointer names a snapshot committed by a      *)
(* mutation, the only step that moves the pointer to another snapshot is   *)
(* the pointer write of a mutation's commit; no step of a resolve (seed,   *)
(* list, read, repair) of any tab does.                                    *)
(***************************************************************************)
C24_RepairNeverDisplacesCommittedHead ==
    [][(C24_HeadCommitted /\ Cur(localStorage') # Cur(localStorage)) =>
          \E c \in Tabs : /\ tab[c].pc = "commitPointer"
                          /\ tab[c].op # "resolve"
                          /\ tab'[c].pc = "idle"
                          /\ Cur(localStorage') = tab'[c].committed]_vars

(***************************************************************************)
(* C25: result of a successful Upsert(oldName, newName, item). The new     *)
(* current snapshot's item map is the prior current item map with oldName  *)
(* removed (when oldName is not null) and then newName mapped to item:     *)
(* every name other than oldName and newName maps to the item it had, and  *)
(* a rename (oldName # newName) leaves no entry under oldName.             *)
(***************************************************************************)
C25_UpsertResult ==
    (last.op = "upsert" /\ last.result = "ok") =>
        LET prior == last.resolved.version.items
            removed == IF last.oldName # NoName THEN {last.oldName} ELSE {}
        IN  /\ PointerValid(localStorage)
            /\ Cur(localStorage) # last.resolved.sha
            /\ MapKeys(CurrentVersion(localStorage).items)
                  = (MapKeys(prior) \ removed) \cup {last.newName}
            /\ MapGet(CurrentVersion(localStorage).items, last.newName) = last.item
            /\ \A n \in MapKeys(prior) \ {last.oldName, last.newName} :
                  /\ MapHas(CurrentVersion(localStorage).items, n)
                  /\ MapGet(CurrentVersion(localStorage).items, n) = MapGet(prior, n)
            /\ (last.oldName # NoName /\ last.oldName # last.newName) =>
                  ~MapHas(CurrentVersion(localStorage).items, last.oldName)
            /\ Len(CurrentVersion(localStorage).items)
                  = Cardinality(MapKeys(CurrentVersion(localStorage).items))

\* an item was renamed to an integer-index name with another item, next to
\* an item that kept its name
C25_Witness ==
    /\ last.op = "upsert"
    /\ last.result = "ok"
    /\ last.oldName # NoName
    /\ last.newName = "1"
    /\ MapHas(last.resolved.version.items, last.oldName)
    /\ MapGet(last.resolved.version.items, last.oldName) # last.item
    /\ \E n \in MapKeys(last.resolved.version.items) \ {last.oldName} :
          MapHas(CurrentVersion(localStorage).items, n)
    /\ ~MapHas(CurrentVersion(localStorage).items, last.oldName)
====
